---- MODULE Spec2Model ----
(***************************************************************************)
(* Control Normalization of online_norm_2d.py: the batch-linearized engine *)
(* ControlNorm2D and the per-sample reference ControlNorm2DLoop, driven    *)
(* side by side on the same stream of batches and incoming gradients.      *)
(*                                                                         *)
(* Numbers.  Tensors hold exact rationals <<n, d>> (d > 0, lowest terms);  *)
(* floating-point round-off is not modelled.  Three quantities of the code *)
(* are irrational in general and are carried in exact form:                *)
(*   scale = sqrt(var + eps)  is carried as its square, scale2;            *)
(*   out   = (x - mu) / scale is carried as outS = out * scale = x - mu;   *)
(*   the incoming gradient is drawn as a rational multiple of scale and    *)
(*   carried as gR = grad / scale.                                         *)
(* Every product the backward pass forms is then rational:                 *)
(*   out * out = outS^2 / scale2,  grad * out = gR * outS,                 *)
(*   (v * out) / scale = v * outS / scale2.                                *)
(* A value in log space is carried as its antilogarithm: log(a) as a for   *)
(* a > 0 and as NaN otherwise, a sum of logarithms as a product, and the   *)
(* zero padding as 1.                                                      *)
(*                                                                         *)
(* Tensors of shape (B, C) are functions [0..B-1 -> [0..C-1 -> rational]], *)
(* tensors of shape (B, C, H, W) add a last index over Pix, the H*W        *)
(* spatial positions.                                                      *)
(***************************************************************************)
EXTENDS Integers, Sequences, FiniteSets, TLC

VARIABLES
    phase,          \* position of the driver: new, rejected, ready, lin_fwd, fwd, lin_bwd
    err,            \* "none", or the exception ControlNorm2D raised
    samples,        \* samples streamed through training forwards so far
    b_size, num_features, afwd, abkw, eps,      \* configuration fixed by __init__
    training,       \* nn.Module.training
    af_pow, af_batch, ab_pow, ab_batch,         \* lazily built constants
    m, var, m_p, var_p,                         \* ControlNorm2D forward buffers
    u, u_p, v_p, alpha_p, beta_p,               \* ControlNorm2D backward buffers
    ctx,            \* ControlNorm2D: tensors saved for backward (outS, scale2)
    loop,           \* ControlNorm2DLoop buffers: [m, var, u, v], each of shape (C)
    loop_ctx,       \* ControlNorm2DLoop: tensors saved for backward
    input, grad,    \* the batch and the incoming gradient of the current call
    out_lin, out_loop,      \* returned by the two training forwards
    gin_lin, gin_loop,      \* returned by the two backwards
    eval_in, eval_out,      \* argument and result of the last evaluation forward
    locals,         \* locals of the last ControlNorm2D call that the claims read
    pre,            \* ControlNorm2D buffers as they were when the last call began
    wr,             \* number of assignments made to each ControlNorm2D buffer
    clamped         \* whether torch.clamp has raised an alpha in some backward so far

lin_bufs == <<m, var, m_p, var_p, u, u_p, v_p, alpha_p, beta_p>>
lin_consts == <<af_pow, af_batch, ab_pow, ab_batch>>
config == <<b_size, num_features, afwd, abkw, eps>>
vars == <<phase, err, samples, config, training, lin_consts, lin_bufs, ctx, loop,
          loop_ctx, input, grad, out_lin, out_loop, gin_lin, gin_loop,
          eval_in, eval_out, locals, pre, wr, clamped>>

-----------------------------------------------------------------------------
(* Bounds of the model *)

MaxB == 3               \* largest b_size constructed
MaxC == 2               \* largest num_features constructed
MaxFwdStream == 6       \* samples streamed under SpecFwd
MaxCtlStream == 4       \* samples streamed under Spec
MaxCtlB == 2            \* largest b_size constructed under Spec

Pix == 0 .. 1           \* spatial positions: H = 1, W = 2

-----------------------------------------------------------------------------
(* Exact rational arithmetic *)

Abs(x) == IF x < 0 THEN -x ELSE x

RECURSIVE GCD(_, _)
GCD(a, b) == IF b = 0 THEN a ELSE GCD(b, a % b)

Rat(n, d) == LET g == GCD(Abs(n), d) IN <<n \div g, d \div g>>
Zero == <<0, 1>>
One == <<1, 1>>
NaN == <<0, 0>>
I2R(k) == <<k, 1>>

\* NaN (denominator 0) propagates through every operation
RNeg(a) == <<-a[1], a[2]>>
RAdd(a, b) ==
    IF a[2] = 0 \/ b[2] = 0 THEN NaN
    ELSE LET g == GCD(a[2], b[2])
         IN  Rat(a[1] * (b[2] \div g) + b[1] * (a[2] \div g), (a[2] \div g) * b[2])
RSub(a, b) == RAdd(a, RNeg(b))
RMul(a, b) ==
    IF a[2] = 0 \/ b[2] = 0 THEN NaN
    ELSE IF a[1] = 0 \/ b[1] = 0 THEN Zero
    ELSE LET g1 == GCD(Abs(a[1]), b[2])
             g2 == GCD(Abs(b[1]), a[2])
         IN  <<(a[1] \div g1) * (b[1] \div g2), (a[2] \div g2) * (b[2] \div g1)>>
RInv(a) ==
    IF a[1] = 0 THEN NaN
    ELSE IF a[1] > 0 THEN <<a[2], a[1]>> ELSE <<-a[2], -a[1]>>
RDiv(a, b) == RMul(a, RInv(b))
RSq(a) == <<a[1] * a[1], a[2] * a[2]>>
\* a < b; FALSE when either is NaN
RLt(a, b) ==
    /\ a[2] # 0
    /\ b[2] # 0
    /\ LET g == GCD(a[2], b[2]) IN a[1] * (b[2] \div g) < b[1] * (a[2] \div g)
RLe(a, b) == ~RLt(b, a)
RMax(a, b) == IF RLt(a, b) THEN b ELSE a

RECURSIVE RPow(_, _)
RPow(a, k) == IF k = 0 THEN One ELSE RMul(a, RPow(a, k - 1))

\* sum of f[lo], ..., f[hi]
RECURSIVE RSum(_, _, _)
RSum(f, lo, hi) == IF hi < lo THEN Zero ELSE RAdd(RSum(f, lo, hi - 1), f[hi])

\* x * |x| / s: a strictly increasing function of x / sqrt(s) for s > 0
SignedSq(x, s) ==
    IF x[1] < 0 THEN RNeg(RDiv(RSq(x), s)) ELSE RDiv(RSq(x), s)

-----------------------------------------------------------------------------
(* Tensor helpers *)

None == <<>>
Rows(b) == 0 .. (b - 1)
Full(b, c, q) == [i \in Rows(b) |-> [ch \in Rows(c) |-> q]]

\* torch.Tensor.squeeze(): drops every dimension of size 1
RECURSIVE Squeeze(_)
Squeeze(shape) ==
    IF shape = <<>> THEN <<>>
    ELSE IF Head(shape) = 1 THEN Squeeze(Tail(shape))
         ELSE <<Head(shape)>> \o Squeeze(Tail(shape))

\* torch.cat along dimension 0: the tensors must have the same number of
\* dimensions and agree on the trailing ones; only a 1-D empty tensor is skipped
CatOK(s1, s2) ==
    \/ s1 = <<0>>
    \/ s2 = <<0>>
    \/ /\ Len(s1) = Len(s2)
       /\ Len(s1) >= 1
       /\ Tail(s1) = Tail(s2)

\* sum over the spatial dimensions (2, 3) divided by n = size(2) * size(3)
SpatialMean(t) == RDiv(RSum(t, 0, Cardinality(Pix) - 1), I2R(Cardinality(Pix)))

\* moments(): per-sample, per-channel mean and biased variance
MomentsMu(x, b, c) ==
    [i \in Rows(b) |-> [ch \in Rows(c) |-> SpatialMean(x[i][ch])]]
\* moments() with the unbiased variance: the variant C12 must tell apart from
\* the code
MomentsVarUnbiased(x, mu, b, c) ==
    [i \in Rows(b) |-> [ch \in Rows(c) |->
        RDiv(RSum([p \in Pix |-> RSq(RSub(x[i][ch][p], mu[i][ch]))],
                  0, Cardinality(Pix) - 1),
             I2R(Cardinality(Pix) - 1))]]
MomentsVar(x, mu, b, c) ==
    [i \in Rows(b) |-> [ch \in Rows(c) |->
        SpatialMean([p \in Pix |-> RSq(RSub(x[i][ch][p], mu[i][ch]))])]]
\* shape of the mean moments() returns: (B, C, 1, 1) squeezed
MuShape(b, c) == Squeeze(<<b, c, 1, 1>>)

-----------------------------------------------------------------------------
(* lin_momentum: the exponential moving average over a batch, by convolution *)

\* PowVec with the exponents ascending, momentum ** arange(0, b_size): the
\* variant C7 must tell apart from the code
PowVecAscending(momentum, b) == [j \in Rows(b) |-> RPow(momentum, j)]

\* momentum ** arange(b_size - 1, -1, -1)
PowVec(momentum, b) == [j \in Rows(b) |-> RPow(momentum, (b - 1) - j)]

\* CatTail taking mu_prev[:-1] instead of mu_prev[1:]: the variant C8 must tell
\* apart from the code
CatTailShifted(mu_prev, mu_curr, b) ==
    [k \in 0 .. (2 * b - 2) |->
        IF k < b - 1 THEN mu_prev[k] ELSE mu_curr[k - (b - 1)]]

\* torch.cat([mu_prev[1:], mu_curr]): 2B - 1 rows
CatTail(mu_prev, mu_curr, b) ==
    [k \in 0 .. (2 * b - 2) |->
        IF k < b - 1 THEN mu_prev[k + 1] ELSE mu_curr[k - (b - 1)]]

\* conv1d of each channel of inp with a kernel of length B, no padding
Conv1d(inp, kernel, b, c) ==
    [i \in Rows(b) |-> [ch \in Rows(c) |->
        RSum([j \in Rows(b) |-> RMul(inp[i + j][ch], kernel[j])], 0, b - 1)]]

\* StaleOf starting from mu_stream[0] instead of mu_stream[-1]: the variant C9
\* must tell apart from the code
StaleOfFirst(mu_stream, curr, b) ==
    [i \in Rows(b) |-> IF i = 0 THEN mu_stream[0] ELSE curr[i - 1]]

\* torch.cat([mu_stream[-1].unsqueeze(0), curr[:-1]])
StaleOf(mu_stream, curr, b) ==
    [i \in Rows(b) |-> IF i = 0 THEN mu_stream[b - 1] ELSE curr[i - 1]]

lin_momentum(mu_prev, mu_curr, mu_stream, momentum, momentum_pow, momentum_batch) ==
    LET b == b_size
        c == num_features
        inp == CatTail(mu_prev, mu_curr, b)
        tmp == Conv1d(inp, momentum_pow, b, c)
        curr == [i \in Rows(b) |-> [ch \in Rows(c) |->
                    RAdd(RMul(momentum_batch[i][ch], mu_stream[i][ch]),
                         RMul(RSub(One, momentum), tmp[i][ch]))]]
    IN  [stale |-> StaleOf(mu_stream, curr, b), curr |-> curr]

-----------------------------------------------------------------------------
(* ControlNorm2D: construction and the training forward *)

\* candidate values of the b_size argument of ControlNorm2D.__init__
BSizeArgs ==
    {[kind |-> "none"], [kind |-> "float", val |-> <<3, 2>>]}
        \cup {[kind |-> "int", val |-> k] : k \in (-1) .. MaxB}

FwdRates == {<<3, 4>>}
BkwRates == {<<1, 2>>}
EpsValues == {<<1, 2>>}

Buffers == {"m", "var", "m_p", "var_p", "u", "u_p", "v_p", "alpha_p", "beta_p"}

\* ControlNorm2DLoop.__init__ / init_norm_params
LoopInit(c) ==
    [m |-> [ch \in Rows(c) |-> Zero], var |-> [ch \in Rows(c) |-> One],
     u |-> [ch \in Rows(c) |-> Zero], v |-> [ch \in Rows(c) |-> Zero]]

Snapshot ==
    [m |-> m, var |-> var, m_p |-> m_p, var_p |-> var_p, u |-> u, u_p |-> u_p,
     v_p |-> v_p, alpha_p |-> alpha_p, beta_p |-> beta_p]

Init ==
    /\ phase = "new"
    /\ err = [e \in {"lin", "loop"} |-> "none"]
    /\ samples = 0
    /\ b_size = None /\ num_features = None
    /\ afwd = None /\ abkw = None /\ eps = None
    /\ training = None
    /\ af_pow = None /\ af_batch = None /\ ab_pow = None /\ ab_batch = None
    /\ m = None /\ var = None /\ m_p = None /\ var_p = None
    /\ u = None /\ u_p = None /\ v_p = None /\ alpha_p = None /\ beta_p = None
    /\ ctx = None /\ loop = None /\ loop_ctx = None
    /\ input = None /\ grad = None
    /\ out_lin = None /\ out_loop = None /\ gin_lin = None /\ gin_loop = None
    /\ eval_in = None /\ eval_out = None
    /\ locals = None /\ pre = None
    /\ wr = [f \in Buffers |-> 0]
    /\ clamped = FALSE

\* the first assertion of __init__ without the second: the variant C6 must tell
\* apart from the code
BSizeIsInt(arg) == arg.kind = "int"

\* the two assertions of ControlNorm2D.__init__
BSizeValid(arg) == arg.kind = "int" /\ arg.val > 0

Construct(arg, c, rf, rb, e) ==
    /\ phase = "new"
    /\ BSizeValid(arg)
    /\ phase' = "ready"
    /\ b_size' = arg.val /\ num_features' = c
    /\ afwd' = rf /\ abkw' = rb /\ eps' = e
    /\ training' = TRUE
    /\ af_pow' = None /\ af_batch' = None /\ ab_pow' = None /\ ab_batch' = None
    /\ m' = Full(arg.val, c, Zero) /\ var' = Full(arg.val, c, One)
    /\ m_p' = Full(arg.val, c, Zero) /\ var_p' = Full(arg.val, c, One)
    /\ u' = Full(arg.val, c, Zero) /\ u_p' = Full(arg.val, c, Zero)
    /\ v_p' = Full(arg.val, c, Zero) /\ beta_p' = Full(arg.val, c, Zero)
    /\ alpha_p' = Full(arg.val, c, One)
    /\ loop' = LoopInit(c)
    /\ UNCHANGED <<err, samples, ctx, loop_ctx, input, grad, out_lin, out_loop,
                   gin_lin, gin_loop, eval_in, eval_out, locals, pre, wr, clamped>>

ConstructFails(arg) ==
    /\ phase = "new"
    /\ ~BSizeValid(arg)
    /\ phase' = "rejected"
    /\ err' = [err EXCEPT !["lin"] = "AssertionError"]
    /\ UNCHANGED <<samples, config, training, lin_consts, lin_bufs, ctx, loop,
                   loop_ctx, input, grad, out_lin, out_loop, gin_lin, gin_loop,
                   eval_in, eval_out, locals, pre, wr, clamped>>

\* nn.Module.train(mode)
SetTraining(mode) ==
    /\ phase \in {"ready", "fwd"}
    /\ training # mode
    /\ training' = mode
    /\ UNCHANGED <<phase, err, samples, config, lin_consts, lin_bufs, ctx, loop,
                   loop_ctx, input, grad, out_lin, out_loop, gin_lin, gin_loop,
                   eval_in, eval_out, locals, pre, wr, clamped>>

\* the constants ControlNormalization.forward builds on its first call
AfPow == IF af_pow = None THEN PowVec(afwd, b_size) ELSE af_pow
AfBatch ==
    IF af_pow = None THEN Full(b_size, num_features, RPow(afwd, b_size))
    ELSE af_batch
AbPow == IF af_pow = None THEN PowVec(abkw, b_size) ELSE ab_pow
AbBatch ==
    IF af_pow = None THEN Full(b_size, num_features, RPow(abkw, b_size))
    ELSE ab_batch

\* VarCurrent with the correction term subtracted: the variant C4 must tell
\* apart from the code
VarCurrentMinus(va, mu, stale_mu, momentum) ==
    [i \in Rows(b_size) |-> [ch \in Rows(num_features) |->
        RSub(va[i][ch], RMul(momentum, RSq(RSub(mu[i][ch], stale_mu[i][ch]))))]]

\* var + momentum * (mu - _mu_b) ** 2
VarCurrent(va, mu, stale_mu, momentum) ==
    [i \in Rows(b_size) |-> [ch \in Rows(num_features) |->
        RAdd(va[i][ch], RMul(momentum, RSq(RSub(mu[i][ch], stale_mu[i][ch]))))]]

\* the body of ControlNormalization.forward from moments() to out
LinFwd(x) ==
    LET b == b_size
        c == num_features
        mu == MomentsMu(x, b, c)
        va == MomentsVar(x, mu, b, c)
        mm == lin_momentum(m_p, mu, m, afwd, AfPow, AfBatch)
        var_current == VarCurrent(va, mu, mm.stale, afwd)
        vv == lin_momentum(var_p, var_current, var, afwd, AfPow, AfBatch)
        scale2 == [i \in Rows(b) |-> [ch \in Rows(c) |-> RAdd(vv.stale[i][ch], eps)]]
        outS == [i \in Rows(b) |-> [ch \in Rows(c) |-> [p \in Pix |->
                    RSub(x[i][ch][p], mm.stale[i][ch])]]]
    IN  [mu |-> mu, var_current |-> var_current,
         stale_mu |-> mm.stale, mu_b |-> mm.curr,
         stale_var |-> vv.stale, var_b |-> vv.curr,
         outS |-> outS, scale2 |-> scale2]

\* the first torch.cat of lin_momentum accepts the squeezed mean of moments()
FwdShapesOK == CatOK(<<b_size - 1, num_features>>, MuShape(b_size, num_features))

\* the buffers ControlNormalization.forward assigns, each once
FwdWrites == {"m_p", "var_p", "m", "var"}

\* the assignments of backward without the one to beta_p: the variant C5 must
\* tell apart from the code
BwdWritesButBeta == {"v_p", "alpha_p", "u_p", "u"}

\* the buffers ControlNormalization.backward assigns, each once
BwdWrites == {"v_p", "alpha_p", "beta_p", "u_p", "u"}

Bump(w, fields) == [f \in Buffers |-> IF f \in fields THEN w[f] + 1 ELSE w[f]]

LinForward(x) ==
    /\ phase \in {"ready", "fwd"}
    /\ training = TRUE
    /\ err["lin"] = "none"
    /\ FwdShapesOK
    /\ \E r \in {LinFwd(x)} :
           /\ ctx' = [outS |-> r.outS, scale2 |-> r.scale2]
           /\ out_lin' = [outS |-> r.outS, scale2 |-> r.scale2]
           /\ m_p' = r.mu
           /\ var_p' = r.var_current
           /\ m' = r.mu_b
           /\ var' = r.var_b
           /\ locals' = [stale_mu |-> r.stale_mu, stale_var |-> r.stale_var]
    /\ af_pow' = AfPow /\ af_batch' = AfBatch
    /\ ab_pow' = AbPow /\ ab_batch' = AbBatch
    /\ wr' = Bump(wr, FwdWrites)
    /\ UNCHANGED clamped
    /\ pre' = Snapshot
    /\ input' = x
    /\ samples' = samples + b_size
    /\ phase' = "lin_fwd"
    /\ out_loop' = None /\ gin_lin' = None /\ gin_loop' = None
    /\ grad' = None /\ eval_in' = None /\ eval_out' = None
    /\ UNCHANGED <<err, config, training, u, u_p, v_p, alpha_p, beta_p, loop, loop_ctx>>

\* the torch.cat of lin_momentum raises on the squeezed mean
LinForwardRaises(x) ==
    /\ phase \in {"ready", "fwd"}
    /\ training = TRUE
    /\ err["lin"] = "none"
    /\ ~FwdShapesOK
    /\ af_pow' = AfPow /\ af_batch' = AfBatch
    /\ ab_pow' = AbPow /\ ab_batch' = AbBatch
    /\ err' = [err EXCEPT !["lin"] = "RuntimeError"]
    /\ input' = x
    /\ samples' = samples + b_size
    /\ phase' = "lin_fwd"
    /\ out_lin' = None /\ out_loop' = None /\ gin_lin' = None /\ gin_loop' = None
    /\ grad' = None /\ eval_in' = None /\ eval_out' = None
    /\ pre' = Snapshot
    /\ UNCHANGED <<config, training, lin_bufs, ctx, loop, loop_ctx, locals, wr, clamped>>

\* EvalOut reading the first entry of the trajectories instead of the last:
\* the variant C3 must tell apart from the code
EvalOutFirstEntry(x) ==
    [outS |-> [i \in DOMAIN x |-> [ch \in Rows(num_features) |-> [p \in Pix |->
                  RSub(x[i][ch][p], m[0][ch])]]],
     scale2 |-> [i \in DOMAIN x |-> [ch \in Rows(num_features) |->
                  RAdd(var[0][ch], eps)]]]

\* ControlNorm2D.forward outside training
EvalOut(x) ==
    [outS |-> [i \in DOMAIN x |-> [ch \in Rows(num_features) |-> [p \in Pix |->
                  RSub(x[i][ch][p], m[b_size - 1][ch])]]],
     scale2 |-> [i \in DOMAIN x |-> [ch \in Rows(num_features) |->
                  RAdd(var[b_size - 1][ch], eps)]]]

EvalForward(x) ==
    /\ phase \in {"ready", "fwd"}
    /\ training = FALSE
    /\ eval_in' = x
    /\ eval_out' = EvalOut(x)
    /\ UNCHANGED <<phase, err, samples, config, training, lin_consts, lin_bufs, ctx,
                   loop, loop_ctx, input, grad, out_lin, out_loop, gin_lin, gin_loop,
                   locals, pre, wr, clamped>>

-----------------------------------------------------------------------------
(* ControlNorm2DLoop: the training forward *)

\* mu[idx] of the squeezed mean: a row when B, C > 1; with C = 1 the scalar of
\* sample idx; with B = 1 the scalar of channel idx, broadcast over the channels
LoopMuAt(mu, b, c, idx) ==
    IF Len(MuShape(b, c)) = 2 THEN mu[idx]
    ELSE IF c = 1 THEN [ch \in Rows(c) |-> mu[idx][0]]
         ELSE [ch \in Rows(c) |-> mu[0][idx]]

\* one pass of the for loop of ControlNormalization.forward
LoopFwdStep(st, x, mu, va, idx) ==
    LET c == num_features
        mrow == LoopMuAt(mu, b_size, c, idx)
    IN  [m |-> [ch \in Rows(c) |->
                 RAdd(st.m[ch], RMul(RSub(One, afwd), RSub(mrow[ch], st.m[ch])))],
         var |-> [ch \in Rows(c) |->
                 RAdd(RAdd(RMul(afwd, st.var[ch]), RMul(RSub(One, afwd), va[idx][ch])),
                      RMul(RMul(afwd, RSub(One, afwd)), RSq(RSub(mrow[ch], st.m[ch]))))],
         scale2 |-> [i \in Rows(b_size) |->
                 IF i = idx THEN [ch \in Rows(c) |-> RAdd(st.var[ch], eps)]
                 ELSE st.scale2[i]],
         outS |-> [i \in Rows(b_size) |->
                 IF i = idx THEN [ch \in Rows(c) |-> [p \in Pix |->
                                    RSub(x[idx][ch][p], st.m[ch])]]
                 ELSE st.outS[i]]]

RECURSIVE LoopFwdUpTo(_, _, _, _, _)
LoopFwdUpTo(st, x, mu, va, n) ==
    IF n = 0 THEN st
    ELSE LoopFwdStep(LoopFwdUpTo(st, x, mu, va, n - 1), x, mu, va, n - 1)

LoopFwd(x) ==
    LET mu == MomentsMu(x, b_size, num_features)
        va == MomentsVar(x, mu, b_size, num_features)
        st0 == [m |-> loop.m, var |-> loop.var,
                scale2 |-> [i \in Rows(b_size) |-> None],
                outS |-> [i \in Rows(b_size) |-> None]]
    IN  LoopFwdUpTo(st0, x, mu, va, b_size)

\* indexing the squeezed mean is possible: it has at least one dimension
LoopShapesOK == Len(MuShape(b_size, num_features)) >= 1

LoopForward ==
    /\ phase = "lin_fwd"
    /\ LoopShapesOK
    /\ \E r \in {LoopFwd(input)} :
           /\ loop' = [loop EXCEPT !.m = r.m, !.var = r.var]
           /\ loop_ctx' = [outS |-> r.outS, scale2 |-> r.scale2]
           /\ out_loop' = [outS |-> r.outS, scale2 |-> r.scale2]
    /\ phase' = "fwd"
    /\ UNCHANGED <<err, samples, config, training, lin_consts, lin_bufs, ctx, input,
                   grad, out_lin, gin_lin, gin_loop, eval_in, eval_out, locals, pre, wr, clamped>>

LoopForwardRaises ==
    /\ phase = "lin_fwd"
    /\ ~LoopShapesOK
    /\ err' = [err EXCEPT !["loop"] = "IndexError"]
    /\ phase' = "fwd"
    /\ UNCHANGED <<samples, config, training, lin_consts, lin_bufs, ctx, loop, loop_ctx,
                   input, grad, out_lin, out_loop, gin_lin, gin_loop, eval_in, eval_out,
                   locals, pre, wr, clamped>>

-----------------------------------------------------------------------------
(* lin_crtl: the v controller over a batch, in log space *)

\* the eps ControlNormalization.backward passes to lin_crtl: 1e-5
CtrlEps == <<1, 100000>>

\* torch.log, on the carried antilogarithm
Log(a) == IF RLt(Zero, a) THEN a ELSE NaN
\* the zeros the log-space matrix is padded with
LogPad == One
\* torch.exp, on the carried antilogarithm
Exp(a) == a

\* torch.cat((t_p, t), 0): 2B rows
Cat2(t_p, t, b) == [k \in 0 .. (2 * b - 1) |-> IF k < b THEN t_p[k] ELSE t[k - b]]

\* Circulant sliced [0 : B, : B] instead of [1 : B + 1, : B]: the variant C10
\* must tell apart from the code
CirculantFromRowZero(t, b) ==
    [i \in Rows(b) |-> [j \in Rows(b) |-> t[(i * (2 * b + 1) + j) % (2 * b)]]]

\* t.repeat(2B + 1, 1).view(2B, 2B + 1, C)[1 : B + 1, : B]: entry [i][j] is row
\* ((i + 1) * (2B + 1) + j) mod 2B of t
Circulant(t, b) ==
    [i \in Rows(b) |-> [j \in Rows(b) |-> t[((i + 1) * (2 * b + 1) + j) % (2 * b)]]]

\* conv_alongb_w1: sums of B consecutive entries along the dimension of length
\* 2B; in log space a sum is the product of the antilogarithms
RECURSIVE LogSum(_, _, _)
LogSum(f, lo, hi) == IF hi < lo THEN LogPad ELSE RMul(LogSum(f, lo, hi - 1), f[hi])
conv_alongb_w1(inp, b, c) ==
    [i \in Rows(b) |-> [j \in 0 .. b |-> [ch \in Rows(c) |->
        LogSum([t \in Rows(b) |-> inp[i][j + t][ch]], 0, b - 1)]]]

\* CtrlAlpha without the torch.clamp: the variant C11 must tell apart from the
\* code
CtrlAlphaUnclamped(outS, scale2, rate, floor, b, c) ==
    [i \in Rows(b) |-> [ch \in Rows(c) |->
        RSub(One, RMul(RSub(One, rate),
                       RDiv(SpatialMean([p \in Pix |-> RSq(outS[i][ch][p])]),
                            scale2[i][ch])))]]

\* ones - (1 - abkw) * mean(out * out), then torch.clamp(alpha, min=eps)
CtrlAlpha(outS, scale2, rate, floor, b, c) ==
    [i \in Rows(b) |-> [ch \in Rows(c) |->
        RMax(RSub(One, RMul(RSub(One, rate),
                            RDiv(SpatialMean([p \in Pix |-> RSq(outS[i][ch][p])]),
                                 scale2[i][ch]))),
             floor)]]

\* whether torch.clamp(alpha, min=eps) changes alpha: some entry is below eps
ClampRaises(outS, scale2, rate, floor, b, c) ==
    \E i \in Rows(b) : \E ch \in Rows(c) :
        RLt(RSub(One, RMul(RSub(One, rate),
                           RDiv(SpatialMean([p \in Pix |-> RSq(outS[i][ch][p])]),
                                scale2[i][ch]))),
            floor)

\* mean(delta * out)
CtrlBeta(gR, outS, b, c) ==
    [i \in Rows(b) |-> [ch \in Rows(c) |->
        SpatialMean([p \in Pix |-> RMul(gR[i][ch][p], outS[i][ch][p])])]]

\* torch.cat((v_p[-1].unsqueeze(0), v_new[:-1]), 0)
VStale(vp, v_new, b) == [i \in Rows(b) |-> IF i = 0 THEN vp[b - 1] ELSE v_new[i - 1]]

\* (weight_d * v_prev).sum(1), v_prev = cat(v_p.reshape(B, 1, C), beta2cir) along 1
VNew(weight_d, vp, beta2cir, b, c) ==
    [i \in Rows(b) |-> [ch \in Rows(c) |->
        RSum([j \in 0 .. b |->
                 RMul(weight_d[i][j][ch],
                      IF j = 0 THEN vp[i][ch] ELSE beta2cir[i][j - 1][ch])],
             0, b)]]

lin_crtl(gR, outS, scale2, b, c, vp, alphap, betap, rate, floor) ==
    LET alpha == CtrlAlpha(outS, scale2, rate, floor, b, c)
        beta == CtrlBeta(gR, outS, b, c)
        logarg == Cat2(alphap, alpha, b)
        alpha2log == [k \in 0 .. (2 * b - 1) |-> [ch \in Rows(c) |-> Log(logarg[k][ch])]]
        beta2 == Cat2(betap, beta, b)
        alpha2logcir == Circulant(alpha2log, b)
        alpha2logcir2 == [i \in Rows(b) |-> [j \in 0 .. (2 * b - 1) |->
                            IF j < b THEN alpha2logcir[i][j]
                            ELSE [ch \in Rows(c) |-> LogPad]]]
        alpha2logcir2conv == conv_alongb_w1(alpha2logcir2, b, c)
        weight_d == [i \in Rows(b) |-> [j \in 0 .. b |-> [ch \in Rows(c) |->
                        Exp(alpha2logcir2conv[i][j][ch])]]]
        beta2cir == Circulant(beta2, b)
        v_new == VNew(weight_d, vp, beta2cir, b, c)
        vst == VStale(vp, v_new, b)
    IN  [grad_delta |-> [i \in Rows(b) |-> [ch \in Rows(c) |-> [p \in Pix |->
                            RSub(gR[i][ch][p],
                                 RMul(RMul(vst[i][ch], RSub(One, rate)),
                                      RDiv(outS[i][ch][p], scale2[i][ch])))]]],
         v_new |-> v_new, alpha_p |-> alpha, beta_p |-> beta,
         logarg |-> logarg, vst |-> vst]

-----------------------------------------------------------------------------
(* ControlNorm2D: backward *)

\* self.mean: the mean over the spatial dimensions
MeanHW(t, b, c) == [i \in Rows(b) |-> [ch \in Rows(c) |-> SpatialMean(t[i][ch])]]

\* the body of ControlNormalization.backward
LinBwd(gR) ==
    LET b == b_size
        c == num_features
        lc == lin_crtl(gR, ctx.outS, ctx.scale2, b, c, v_p, alpha_p, beta_p,
                       abkw, CtrlEps)
        \* grad_delta / scale: lc.grad_delta is carried divided by scale already
        grad_delta == lc.grad_delta
        u_tmp == MeanHW(grad_delta, b, c)
        uu == lin_momentum(u_p, u_tmp, u, abkw, ab_pow, ab_batch)
    IN  [v_new |-> lc.v_new, alpha_p |-> lc.alpha_p, beta_p |-> lc.beta_p,
         u_tmp |-> u_tmp, u_b |-> uu.curr, stale_u |-> uu.stale,
         logarg |-> lc.logarg, stale_v |-> lc.vst,
         grad_in |-> [i \in Rows(b) |-> [ch \in Rows(c) |-> [p \in Pix |->
                        RSub(grad_delta[i][ch][p], uu.stale[i][ch])]]]]

LinBackward(gR) ==
    /\ phase = "fwd"
    /\ err["lin"] = "none"
    /\ \E r \in {LinBwd(gR)} :
           /\ v_p' = r.v_new
           /\ alpha_p' = r.alpha_p
           /\ beta_p' = r.beta_p
           /\ u_p' = r.u_tmp
           /\ u' = r.u_b
           /\ gin_lin' = r.grad_in
           /\ locals' = [stale_u |-> r.stale_u, stale_v |-> r.stale_v,
                         logarg |-> r.logarg]
    /\ wr' = Bump(wr, BwdWrites)
    /\ clamped' = (clamped \/ ClampRaises(ctx.outS, ctx.scale2, abkw, CtrlEps,
                                            b_size, num_features))
    /\ pre' = Snapshot
    /\ grad' = gR
    /\ phase' = "lin_bwd"
    /\ gin_loop' = None /\ eval_in' = None /\ eval_out' = None
    /\ UNCHANGED <<err, samples, config, training, lin_consts, m, var, m_p, var_p,
                   ctx, loop, loop_ctx, input, out_lin, out_loop>>

-----------------------------------------------------------------------------
(* ControlNorm2DLoop: backward *)

\* one pass of the loop that subtracts u instead of (1 - abkw) * u: the variant
\* C13 must tell apart from the code
LoopBwdStepPlainU(st, gR, idx) ==
    LET c == num_features
        outS == loop_ctx.outS[idx]
        scale2 == loop_ctx.scale2[idx]
        grad_v_ctrl == [ch \in Rows(c) |-> [p \in Pix |->
            RSub(gR[idx][ch][p],
                 RMul(RMul(RSub(One, abkw), st.v[ch]),
                      RDiv(outS[ch][p], scale2[ch])))]]
        v1 == [ch \in Rows(c) |->
            RAdd(st.v[ch],
                 SpatialMean([p \in Pix |-> RMul(grad_v_ctrl[ch][p], outS[ch][p])]))]
        g == [ch \in Rows(c) |-> [p \in Pix |-> RSub(grad_v_ctrl[ch][p], st.u[ch])]]
    IN  [v |-> v1,
         u |-> [ch \in Rows(c) |-> RAdd(st.u[ch], SpatialMean(g[ch]))],
         grad_in |-> [i \in Rows(b_size) |-> IF i = idx THEN g ELSE st.grad_in[i]]]

\* one pass of the for loop of ControlNormalization.backward
LoopBwdStep(st, gR, idx) ==
    LET c == num_features
        outS == loop_ctx.outS[idx]
        scale2 == loop_ctx.scale2[idx]
        \* grad_v_ctrl, carried divided by scale[idx]
        grad_v_ctrl == [ch \in Rows(c) |-> [p \in Pix |->
            RSub(gR[idx][ch][p],
                 RMul(RMul(RSub(One, abkw), st.v[ch]),
                      RDiv(outS[ch][p], scale2[ch])))]]
        v1 == [ch \in Rows(c) |->
            RAdd(st.v[ch],
                 SpatialMean([p \in Pix |-> RMul(grad_v_ctrl[ch][p], outS[ch][p])]))]
        g == [ch \in Rows(c) |-> [p \in Pix |->
            RSub(grad_v_ctrl[ch][p], RMul(RSub(One, abkw), st.u[ch]))]]
    IN  [v |-> v1,
         u |-> [ch \in Rows(c) |-> RAdd(st.u[ch], SpatialMean(g[ch]))],
         grad_in |-> [i \in Rows(b_size) |-> IF i = idx THEN g ELSE st.grad_in[i]]]

RECURSIVE LoopBwdUpTo(_, _, _)
LoopBwdUpTo(st, gR, n) ==
    IF n = 0 THEN st ELSE LoopBwdStep(LoopBwdUpTo(st, gR, n - 1), gR, n - 1)

LoopBwd(gR) ==
    LoopBwdUpTo([v |-> loop.v, u |-> loop.u, grad_in |-> [i \in Rows(b_size) |-> None]],
                gR, b_size)

LoopBackward ==
    /\ phase = "lin_bwd"
    /\ \E r \in {LoopBwd(grad)} :
           /\ loop' = [loop EXCEPT !.v = r.v, !.u = r.u]
           /\ gin_loop' = r.grad_in
    /\ phase' = "ready"
    /\ UNCHANGED <<err, samples, config, training, lin_consts, lin_bufs, ctx, loop_ctx,
                   input, grad, out_lin, out_loop, gin_lin, eval_in, eval_out,
                   locals, pre, wr, clamped>>

-----------------------------------------------------------------------------
(* Inputs *)

\* sample templates: FwdSamples[t][channel % 2][position]
FwdSamples ==
    <<  <<  <<0, 0>>, <<1, 1>>  >>,
        <<  <<1, 1>>, <<2, 2>>  >>,
        <<  <<1, -1>>, <<3, 1>>  >>  >>

Batch(tpl, pick, b, c) ==
    [i \in Rows(b) |-> [ch \in Rows(c) |-> [p \in Pix |->
        I2R(tpl[pick[i]][(ch % 2) + 1][p + 1])]]]

FwdInputs == {Batch(FwdSamples, pick, b_size, num_features) :
                pick \in [Rows(b_size) -> DOMAIN FwdSamples]}

\* batches whose samples are all the same template
ConstInputs(tpl) == {Batch(tpl, [i \in Rows(b_size) |-> t], b_size, num_features) :
                        t \in DOMAIN tpl}

\* samples of spatial mean zero, for the stream the controllers are driven on
CtlSamples ==
    <<  <<  <<1, -1>>, <<1, -1>>  >>,
        <<  <<2, -2>>, <<1, -1>>  >>  >>

CtlInputs == {Batch(CtlSamples, pick, b_size, num_features) :
                pick \in [Rows(b_size) -> DOMAIN CtlSamples]}

\* incoming gradients, as multiples of scale: GradSamples[t][channel % 2][position]
GradSamples ==
    <<  <<  <<1, 0>>, <<0, 1>>  >>,
        <<  <<0, 0>>, <<1, 1>>  >>  >>

GradInputs == {Batch(GradSamples, pick, b_size, num_features) :
                pick \in [Rows(b_size) -> DOMAIN GradSamples]}

-----------------------------------------------------------------------------
(* Specification of the forward pass alone *)

NextFwd ==
    \/ \E arg \in BSizeArgs, c \in 1 .. MaxC, rf \in FwdRates, rb \in BkwRates,
          e \in EpsValues : Construct(arg, c, rf, rb, e)
    \/ \E arg \in BSizeArgs : ConstructFails(arg)
    \/ \E mode \in BOOLEAN : SetTraining(mode)
    \/ /\ phase \in {"ready", "fwd"}
       /\ samples + b_size <= MaxFwdStream
       /\ \E x \in FwdInputs : LinForward(x)
    \/ /\ phase \in {"ready", "fwd"}
       /\ samples + b_size <= MaxFwdStream
       /\ \E x \in ConstInputs(FwdSamples) : LinForwardRaises(x)
    \/ LoopForward
    \/ LoopForwardRaises
    \/ /\ phase \in {"ready", "fwd"}
       /\ \E x \in ConstInputs(FwdSamples) : EvalForward(x)

SpecFwd == Init /\ [][NextFwd]_vars

-----------------------------------------------------------------------------
(* Specification of forward and backward *)

\* the b_size arguments tried under Spec
CtlBSizeArgs == {arg \in BSizeArgs : arg.kind = "int" => arg.val <= MaxCtlB}

Next ==
    \/ \E arg \in CtlBSizeArgs, c \in 1 .. MaxC, rf \in FwdRates, rb \in BkwRates,
          e \in EpsValues : Construct(arg, c, rf, rb, e)
    \/ \E arg \in CtlBSizeArgs : ConstructFails(arg)
    \/ \E mode \in BOOLEAN : SetTraining(mode)
    \/ /\ phase \in {"ready", "fwd"}
       /\ samples + b_size <= MaxCtlStream
       /\ \E x \in CtlInputs : LinForward(x)
    \/ /\ phase \in {"ready", "fwd"}
       /\ samples + b_size <= MaxCtlStream
       /\ \E x \in ConstInputs(CtlSamples) : LinForwardRaises(x)
    \/ LoopForward
    \/ LoopForwardRaises
    \/ /\ phase \in {"ready", "fwd"}
       /\ \E x \in ConstInputs(CtlSamples) : EvalForward(x)
    \/ /\ phase = "fwd"
       /\ \E g \in GradInputs : LinBackward(g)
    \/ LoopBackward

Spec == Init /\ [][Next]_vars

-----------------------------------------------------------------------------
(* Properties *)

\* ControlNorm2D completed its last call
LinReturned == err["lin"] = "none"

\* the outputs outS / sqrt(scale2) of two forwards agree, entry by entry
SameOutput(a, b) ==
    \A i \in Rows(b_size) : \A ch \in Rows(num_features) : \A p \in Pix :
        SignedSq(a.outS[i][ch][p], a.scale2[i][ch])
            = SignedSq(b.outS[i][ch][p], b.scale2[i][ch])

\* C1: for every batch size B >= 1 and channel count C >= 1, once both engines
\* have been given the same batch of the stream, ControlNorm2D has returned an
\* output and it equals, sample by sample, the output of ControlNorm2DLoop.
\* Refuted: with B = 1 or C = 1 ControlNorm2D raises where the loop returns.
C1_ForwardEquivalence ==
    (phase = "fwd" /\ out_loop # None) =>
        (LinReturned /\ out_lin # None /\ SameOutput(out_lin, out_loop))

\* C1, where it does hold: with B >= 2 and C >= 2 the two outputs agree
C1_EquivalentFromTwo ==
    (phase = "fwd" /\ b_size >= 2 /\ num_features >= 2) =>
        (LinReturned /\ err["loop"] = "none" /\ SameOutput(out_lin, out_loop))

\* ControlNorm2D raised on a batch for which ControlNorm2DLoop returned an output
C1_Diverges ==
    /\ phase = "fwd"
    /\ err["lin"] = "RuntimeError"
    /\ err["loop"] = "none"
    /\ out_loop # None

\* C2: for every B and C and every stream in which each training forward is
\* followed by one backward, once both engines have run the backward on the same
\* incoming gradient, the gradient ControlNorm2D.backward returned equals, sample
\* by sample, the gradient ControlNorm2DLoop.backward returned, also where the
\* mean of the squared normalized output is large.
\* Refuted: lin_crtl clamps alpha at 1e-5, the loop lets it reach 0 and below.
C2_BackwardEquivalence ==
    (phase = "ready" /\ gin_loop # None) =>
        (LinReturned /\ gin_lin # None /\ gin_lin = gin_loop)

\* both backwards returned, with different gradients
C2_Diverges ==
    /\ phase = "ready"
    /\ gin_loop # None /\ gin_lin # None
    /\ gin_lin # gin_loop

\* C3: a forward of ControlNorm2D in evaluation mode changes none of m, var, m_p,
\* var_p, u, u_p, v_p, alpha_p, beta_p nor the lazily built constants, and its
\* output for every sample is (x - m[B-1]) / sqrt(var[B-1] + eps), outS = x - m[B-1]
\* over scale2 = var[B-1] + eps; the output is a function of the input and of the
\* unchanged state, so a second call on the same input returns the same output.
C3_EvalIsPureRead ==
    [][(/\ phase \in {"ready", "fwd"} /\ phase' = phase
        /\ training = FALSE /\ training' = FALSE) =>
        /\ UNCHANGED lin_bufs
        /\ UNCHANGED lin_consts
        /\ eval_out' # None =>
            \A i \in DOMAIN eval_in' : \A ch \in Rows(num_features) :
                /\ eval_out'.scale2[i][ch] = RAdd(var'[b_size - 1][ch], eps)
                /\ \A p \in Pix :
                    eval_out'.outS[i][ch][p]
                        = RSub(eval_in'[i][ch][p], m'[b_size - 1][ch])]_vars

\* an evaluation forward has returned after training moved the trajectories
C3_Reached ==
    /\ phase \in {"ready", "fwd"}
    /\ training = FALSE
    /\ eval_out # None
    /\ samples >= 2 * b_size
    /\ m[0] # m[b_size - 1]
    /\ var[0] # var[b_size - 1]

\* an instance of ControlNorm2D exists
Constructed == phase \notin {"new", "rejected"}

\* C4: from construction on (var = var_p = 1) and after any number of training
\* forwards, every entry of var and of var_p is >= 0.
C4_VarianceNonNegative ==
    Constructed =>
        \A i \in Rows(b_size) : \A ch \in Rows(num_features) :
            /\ RLe(Zero, var[i][ch])
            /\ RLe(Zero, var_p[i][ch])

\* two training forwards have moved var and var_p away from their initial value
C4_Reached ==
    /\ Constructed
    /\ LinReturned
    /\ samples >= 2 * b_size
    /\ \E i \in Rows(b_size) : \E ch \in Rows(num_features) :
        /\ RLt(var[i][ch], One)
        /\ RLt(One, var_p[i][ch])

\* C5: each training forward of ControlNorm2D that returns assigns m_p, var_p, m
\* and var exactly once and leaves u, u_p, v_p, alpha_p and beta_p as they were;
\* each backward assigns v_p, alpha_p, beta_p, u_p and u exactly once and leaves
\* m, var, m_p and var_p as they were.
C5_StateAdvance ==
    [][/\ (phase # "lin_fwd" /\ phase' = "lin_fwd" /\ err'["lin"] = "none") =>
            /\ \A f \in {"m_p", "var_p", "m", "var"} : wr'[f] = wr[f] + 1
            /\ \A f \in {"u", "u_p", "v_p", "alpha_p", "beta_p"} : wr'[f] = wr[f]
            /\ UNCHANGED <<u, u_p, v_p, alpha_p, beta_p>>
       /\ (phase # "lin_bwd" /\ phase' = "lin_bwd") =>
            /\ \A f \in {"v_p", "alpha_p", "beta_p", "u_p", "u"} : wr'[f] = wr[f] + 1
            /\ \A f \in {"m", "var", "m_p", "var_p"} : wr'[f] = wr[f]
            /\ UNCHANGED <<m, var, m_p, var_p>>]_vars

\* a second backward has returned, after two forwards, with every buffer moved
C5_Reached ==
    /\ phase = "lin_bwd"
    /\ \A f \in Buffers : wr[f] = 2
    /\ pre.u # u /\ pre.v_p # v_p /\ pre.alpha_p # alpha_p
    /\ var # Full(b_size, num_features, One)

\* no buffer of ControlNorm2D exists
NoStreamingState ==
    /\ \A f \in Buffers : Snapshot[f] = None
    /\ lin_consts = <<None, None, None, None>>

FirstForwardOnConstantMeans ==
    /\ phase = "lin_fwd"
    /\ LinReturned
    /\ samples = b_size
    /\ \A i \in Rows(b_size) : \A ch \in Rows(num_features) :
        SpatialMean(input[i][ch]) = SpatialMean(input[0][ch])

\* C7: on the first training forward of a fresh ControlNorm2D, when every sample
\* of the batch has the per-channel mean mu_c, the stale mean used for sample 0
\* is the seed 0, the fresh mean after sample i is mu_c * (1 - rho^(i+1)), the gap
\* to mu_c shrinks by exactly rho from one sample to the next, and the output of
\* sample 0 is (x_0 - 0) / sqrt(1 + eps).
C7_ConstantBatch ==
    FirstForwardOnConstantMeans =>
        \A ch \in Rows(num_features) :
            LET mu_c == SpatialMean(input[0][ch])
            IN  /\ locals.stale_mu[0][ch] = Zero
                /\ \A i \in Rows(b_size) :
                    m[i][ch] = RMul(mu_c, RSub(One, RPow(afwd, i + 1)))
                /\ \A i \in 1 .. (b_size - 1) :
                    RSub(mu_c, m[i][ch]) = RMul(afwd, RSub(mu_c, m[i - 1][ch]))
                /\ out_lin.scale2[0][ch] = RAdd(One, eps)
                /\ \A p \in Pix : out_lin.outS[0][ch][p] = RSub(input[0][ch][p], Zero)

\* such a first forward, on three or more samples whose means are not all 0
C7_Reached ==
    /\ FirstForwardOnConstantMeans
    /\ b_size >= 3
    /\ \E ch \in Rows(num_features) : SpatialMean(input[0][ch]) # Zero
    /\ \E ch \in Rows(num_features) : input[0][ch][0] # input[0][ch][1]

\* a training forward of ControlNorm2D has just returned
ForwardReturned == phase = "lin_fwd" /\ LinReturned

\* fresh[i] = rho * fresh[i-1] + (1 - rho) * mu_curr[i], fresh[-1] = y_prev
Recurrence(fresh, mu_curr, y_prev, rho) ==
    \A i \in Rows(b_size) : \A ch \in Rows(num_features) :
        fresh[i][ch] =
            RAdd(RMul(rho, IF i = 0 THEN y_prev[ch] ELSE fresh[i - 1][ch]),
                 RMul(RSub(One, rho), mu_curr[i][ch]))

\* fresh[i] = rho^(i+1) * y_prev + (1 - rho) * sum_{k = 0..i} rho^(i-k) * mu_curr[k]
Unrolled(fresh, mu_curr, y_prev, rho) ==
    \A i \in Rows(b_size) : \A ch \in Rows(num_features) :
        fresh[i][ch] =
            RAdd(RMul(RPow(rho, i + 1), y_prev[ch]),
                 RMul(RSub(One, rho),
                      RSum([k \in 0 .. i |-> RMul(RPow(rho, i - k), mu_curr[k][ch])],
                           0, i)))

\* C8: in every call of lin_momentum made by the forward, where mu_stream is the
\* fresh trajectory of the previous call and mu_prev that call's mu_curr (or both
\* are the initial state), the fresh output satisfies
\* fresh[i] = rho * fresh[i-1] + (1 - rho) * mu_curr[i] for every i in 0..B-1, with
\* fresh[-1] = mu_stream[B-1], and equally the unrolled sum over the batch.
\* After the call m and var hold fresh, m_p and var_p hold mu_curr, and pre holds
\* the mu_stream the call was given.
C8_EmaRecurrence ==
    ForwardReturned =>
        /\ Recurrence(m, m_p, pre.m[b_size - 1], afwd)
        /\ Unrolled(m, m_p, pre.m[b_size - 1], afwd)
        /\ Recurrence(var, var_p, pre.var[b_size - 1], afwd)
        /\ Unrolled(var, var_p, pre.var[b_size - 1], afwd)

\* a second or later forward, whose mu_prev and mu_stream are not the initial
\* state and whose samples have different moments
C8_Reached ==
    /\ ForwardReturned
    /\ samples >= 2 * b_size
    /\ pre.m_p[0] # pre.m_p[b_size - 1]
    /\ pre.m # Full(b_size, num_features, Zero)
    /\ m_p[0] # m_p[b_size - 1]
    /\ var_p[0] # var_p[b_size - 1]

\* stale[i] = fresh[i-1] for i in 1..B-1, stale[0] = the last entry of the fresh
\* trajectory the previous call stored
StaleFollowsFresh(stale, fresh, stored) ==
    \A i \in Rows(b_size) :
        stale[i] = IF i = 0 THEN stored[b_size - 1] ELSE fresh[i - 1]

\* stale[i] written over the samples before i only:
\* rho^i * y_prev + (1 - rho) * sum_{k = 0..i-1} rho^(i-1-k) * mu_curr[k]
StaleFromEarlier(stale, mu_curr, y_prev, rho) ==
    \A i \in Rows(b_size) : \A ch \in Rows(num_features) :
        stale[i][ch] =
            RAdd(RMul(RPow(rho, i), y_prev[ch]),
                 RMul(RSub(One, rho),
                      RSum([k \in 0 .. (i - 1) |->
                               RMul(RPow(rho, i - 1 - k), mu_curr[k][ch])],
                           0, i - 1)))

\* the stale trajectories of the forward that has just returned
StaleOfLastCall ==
    ForwardReturned =>
        /\ StaleFollowsFresh(locals.stale_mu, m, pre.m)
        /\ StaleFollowsFresh(locals.stale_var, var, pre.var)
        /\ samples = b_size =>
            /\ locals.stale_mu[0] = [ch \in Rows(num_features) |-> Zero]
            /\ locals.stale_var[0] = [ch \in Rows(num_features) |-> One]
        /\ StaleFromEarlier(locals.stale_mu, m_p, pre.m[b_size - 1], afwd)
        /\ StaleFromEarlier(locals.stale_var, var_p, pre.var[b_size - 1], afwd)
        /\ \A i \in Rows(b_size) : \A ch \in Rows(num_features) :
            /\ out_lin.scale2[i][ch] = RAdd(locals.stale_var[i][ch], eps)
            /\ \A p \in Pix :
                out_lin.outS[i][ch][p] = RSub(input[i][ch][p], locals.stale_mu[i][ch])

\* in training mode, whatever batch the next forward is given, the stale mean and
\* the stale variance it forms for sample i are the same for any two batches that
\* agree on the samples before i
StaleIgnoresLaterSamples ==
    (/\ phase \in {"ready", "fwd"} /\ LinReturned /\ FwdShapesOK
     /\ training = TRUE /\ eval_in = None
     /\ samples + b_size <= MaxFwdStream) =>
        LET res == [x \in FwdInputs |->
                      LET r == LinFwd(x) IN <<r.stale_mu, r.stale_var>>]
        IN  \A x1 \in FwdInputs : \A x2 \in FwdInputs : \A i \in Rows(b_size) :
                (\A k \in 0 .. (i - 1) : x1[k] = x2[k]) =>
                    /\ res[x1][1][i] = res[x2][1][i]
                    /\ res[x1][2][i] = res[x2][2][i]

\* C9: in every call of lin_momentum made by the forward, stale[i] = fresh[i-1]
\* for i in 1..B-1 and stale[0] is the last entry of the fresh trajectory stored
\* by the previous call, the initial value (0 for the mean, 1 for the variance) on
\* the first call; hence stale[i], the value that normalizes sample i, is
\* determined by the stored state and the samples before i, and depends neither
\* on sample i nor on any later sample.
C9_StaleContinuity ==
    /\ StaleIgnoresLaterSamples
    /\ StaleOfLastCall

\* a second or later forward whose stale trajectories start from stored values
\* that differ from the initial ones and from the first stored entry
C9_Reached ==
    /\ ForwardReturned
    /\ samples >= 2 * b_size
    /\ pre.m[0] # pre.m[b_size - 1]
    /\ pre.var[0] # pre.var[b_size - 1]
    /\ locals.stale_mu[0] # [ch \in Rows(num_features) |-> Zero]
    /\ locals.stale_mu[1] # locals.stale_mu[0]

\* a backward of ControlNorm2D has just returned
BackwardReturned == phase = "lin_bwd"

\* alpha_i = max(floor, 1 - (1 - rho_bkw) * mean(out_i^2)) and
\* beta_i = mean(grad_i * out_i), as persisted in alpha_p and beta_p;
\* out^2 = outS^2 / scale2 and grad * out = gR * outS
AlphaBetaOfBatch ==
    \A i \in Rows(b_size) : \A ch \in Rows(num_features) :
        /\ alpha_p[i][ch] =
            RMax(CtrlEps,
                 RSub(One, RMul(RSub(One, abkw),
                     RDiv(SpatialMean([p \in Pix |-> RSq(ctx.outS[i][ch][p])]),
                          ctx.scale2[i][ch]))))
        /\ beta_p[i][ch] =
            SpatialMean([p \in Pix |-> RMul(grad[i][ch][p], ctx.outS[i][ch][p])])

\* v_i = alpha_i * v_{i-1} + gain * beta_i over the batch, v_{-1} the last entry of
\* the v trajectory the previous backward stored, 0 before the first backward
VRecurrence(gain) ==
    /\ wr["v_p"] = 1 => pre.v_p[b_size - 1] = [ch \in Rows(num_features) |-> Zero]
    /\ \A i \in Rows(b_size) : \A ch \in Rows(num_features) :
        v_p[i][ch] =
            RAdd(RMul(alpha_p[i][ch],
                      IF i = 0 THEN pre.v_p[b_size - 1][ch] ELSE v_p[i - 1][ch]),
                 RMul(gain, beta_p[i][ch]))

\* C10, as stated: across the samples of a batch and across backward calls the v
\* trajectory of lin_crtl satisfies v_i = alpha_i * v_{i-1} + (1 - rho_bkw) * beta_i.
\* Refuted: lin_crtl adds beta_i whole.
C10_VRecurrenceAsStated ==
    BackwardReturned => (AlphaBetaOfBatch /\ VRecurrence(RSub(One, abkw)))

\* C10, amended: across the samples of a batch and across backward calls the v
\* trajectory of lin_crtl (v_new, persisted in v_p) satisfies
\* v_i = alpha_i * v_{i-1} + beta_i, where
\* alpha_i = max(floor, 1 - (1 - rho_bkw) * mean(out_i^2)),
\* beta_i = mean(grad_i * out_i), and v_{-1} is the last entry of the previous
\* call's v trajectory (0 initially).
C10_VRecurrence ==
    BackwardReturned => (AlphaBetaOfBatch /\ VRecurrence(One))

\* a second backward, starting from a stored v that is not 0, on a batch with an
\* alpha at the floor, an alpha above it and a beta that is not 0
C10_Reached ==
    /\ BackwardReturned
    /\ wr["v_p"] = 2
    /\ \E ch \in Rows(num_features) :
        /\ pre.v_p[b_size - 1][ch] # Zero
        /\ \E i \in Rows(b_size) : alpha_p[i][ch] = CtrlEps
        /\ \E i \in Rows(b_size) : RLt(CtrlEps, alpha_p[i][ch])
        /\ \E i \in Rows(b_size) : beta_p[i][ch] # Zero

\* C11: in every reachable state every entry of alpha_p is strictly positive, 1
\* after construction and at least the clamp floor after any backward; so in
\* every backward every value passed to the logarithm of lin_crtl, the previous
\* alphas concatenated with the clamped current alphas, is > 0.
C11_AlphaPositive ==
    /\ Constructed =>
        \A i \in Rows(b_size) : \A ch \in Rows(num_features) :
            /\ RLt(Zero, alpha_p[i][ch])
            /\ wr["alpha_p"] = 0 => alpha_p[i][ch] = One
            /\ wr["alpha_p"] > 0 => RLe(CtrlEps, alpha_p[i][ch])
    /\ BackwardReturned =>
        /\ DOMAIN locals.logarg = 0 .. (2 * b_size - 1)
        /\ \A k \in DOMAIN locals.logarg : \A ch \in Rows(num_features) :
            /\ RLt(Zero, locals.logarg[k][ch])
            /\ locals.logarg[k][ch] =
                IF k < b_size THEN pre.alpha_p[k][ch] ELSE alpha_p[k - b_size][ch]

\* a second backward took the logarithm of a previous alpha at the floor, of a
\* previous alpha above it, and of a current alpha that the clamp raised
C11_Reached ==
    /\ BackwardReturned
    /\ wr["alpha_p"] = 2
    /\ \E k \in 0 .. (b_size - 1) : \E ch \in Rows(num_features) :
        locals.logarg[k][ch] = CtrlEps
    /\ \E k \in 0 .. (b_size - 1) : \E ch \in Rows(num_features) :
        RLt(CtrlEps, locals.logarg[k][ch])
    /\ \E i \in Rows(b_size) : \E ch \in Rows(num_features) :
        /\ alpha_p[i][ch] = CtrlEps
        /\ RLt(RSub(One, RMul(RSub(One, abkw),
                    RDiv(SpatialMean([p \in Pix |-> RSq(ctx.outS[i][ch][p])]),
                         ctx.scale2[i][ch]))),
               Zero)

\* the spatial mean of sample i of the batch just given, channel ch
RawMean(i, ch) == SpatialMean(input[i][ch])

\* the biased spatial variance of sample i, as E[x^2] - E[x]^2
RawVar(i, ch) ==
    RSub(SpatialMean([p \in Pix |-> RSq(input[i][ch][p])]), RSq(RawMean(i, ch)))

\* the mean the sample was normalized with: the fresh mean of the sample before
\* it, or the last fresh mean of the previous call
StaleMean(i, ch) == IF i = 0 THEN pre.m[b_size - 1][ch] ELSE m[i - 1][ch]

\* m and var hold the trajectories that the recurrence draws from m_p and var_p
FreshTrajectories ==
    /\ Recurrence(m, m_p, pre.m[b_size - 1], afwd)
    /\ Recurrence(var, var_p, pre.var[b_size - 1], afwd)

\* C12 as stated: after every training forward call m_p[i] is the spatial mean
\* of sample i, var_p[i] is the biased spatial variance of sample i, and m and
\* var hold the fresh EMA trajectories.
C12_RawMomentsAsStated ==
    ForwardReturned =>
        /\ \A i \in Rows(b_size) : \A ch \in Rows(num_features) :
            /\ m_p[i][ch] = RawMean(i, ch)
            /\ var_p[i][ch] = RawVar(i, ch)
        /\ FreshTrajectories

\* C12: after every training forward call m_p[i] is the spatial mean of sample
\* i, var_p[i] is the biased spatial variance of sample i plus
\* afwd * (mean of sample i - stale mean of sample i)^2, the value the variance
\* recurrence was fed, and m and var hold the fresh EMA trajectories.
C12_PersistedMoments ==
    ForwardReturned =>
        /\ \A i \in Rows(b_size) : \A ch \in Rows(num_features) :
            /\ m_p[i][ch] = RawMean(i, ch)
            /\ var_p[i][ch] =
                RAdd(RawVar(i, ch),
                     RMul(afwd, RSq(RSub(RawMean(i, ch), StaleMean(i, ch)))))
        /\ FreshTrajectories

\* a second or later forward on a sample that has a spatial variance and a mean
\* away from its stale mean, so that var_p is neither the raw variance nor the
\* cross term alone
C12_Reached ==
    /\ ForwardReturned
    /\ samples >= 2 * b_size
    /\ \E i \in Rows(b_size) : \E ch \in Rows(num_features) :
        /\ RawVar(i, ch) # Zero
        /\ RawMean(i, ch) # StaleMean(i, ch)
        /\ var_p[i][ch] # RawVar(i, ch)
        /\ pre.var_p[i][ch] # var_p[i][ch]

\* both engines have run the same forwards and backwards, ControlNorm2D returned
\* from each, and no backward so far has had an alpha raised by the clamp
MatchedUnclamped ==
    /\ phase = "ready"
    /\ gin_loop # None /\ gin_lin # None
    /\ LinReturned
    /\ ~clamped

\* whenever both engines have been given the same batches and ControlNorm2D
\* returned, the last entries of m and var are the loop's m and var
MomentsAgree ==
    (phase \in {"ready", "fwd", "lin_bwd"} /\ LinReturned) =>
        \A ch \in Rows(num_features) :
            /\ m[b_size - 1][ch] = loop.m[ch]
            /\ var[b_size - 1][ch] = loop.var[ch]

\* C13: after any sequence of matched forward and backward calls on the same
\* inputs and gradients in which no alpha was raised by the clamp,
\* u[B-1] = (1 - abkw) * u_loop, which differs from u_loop wherever u_loop is not
\* zero, v_p[B-1] = v_loop, m[B-1] = m_loop and var[B-1] = var_loop; the stale u
\* the linearized backward subtracted from sample 0 is (1 - abkw) times the u
\* the loop began with, and the two returned gradients are equal.
C13_StateRelation ==
    /\ MomentsAgree
    /\ MatchedUnclamped =>
        /\ \A ch \in Rows(num_features) :
            /\ u[b_size - 1][ch] = RMul(RSub(One, abkw), loop.u[ch])
            /\ loop.u[ch] # Zero => u[b_size - 1][ch] # loop.u[ch]
            /\ v_p[b_size - 1][ch] = loop.v[ch]
            /\ locals.stale_u[0][ch] = pre.u[b_size - 1][ch]
        /\ gin_lin = gin_loop

\* two matched rounds without a clamp, after which u and v are not zero and
\* the u of the two engines differ
C13_Reached ==
    /\ MatchedUnclamped
    /\ wr["u"] = 2
    /\ pre.u[b_size - 1] # [ch \in Rows(num_features) |-> Zero]
    /\ \E ch \in Rows(num_features) :
        /\ loop.u[ch] # Zero
        /\ loop.v[ch] # Zero
        /\ u[b_size - 1][ch] # loop.u[ch]
        /\ v_p[b_size - 1][ch] = loop.v[ch]

====
